---- MODULE Spec2Model ----
(***************************************************************************)
(* react-vtk-js: the View render scheduler (core/View), the slice          *)
(* representation's synchronization pass (core/SliceRepresentation) and    *)
(* the lookup-table hook (core/modules/useColorTransferFunction), run by   *)
(* the React runtime: state updates are queued and applied by the next     *)
(* commit, an effect runs after a commit when one of its dependencies      *)
(* changed, a child's effects run before its parent's.                     *)
(*                                                                         *)
(* Spec            the render scheduler and the dirty accumulator          *)
(* TeardownSpec    unmount scopes, handle caches and the deletion registry *)
(* ResurrectionSpec  TeardownSpec with getLUT() called during a teardown   *)
(* CacheSpec       the lookup-table slot with a factory that may throw     *)
(* RegistrySpec    the deletion registry under any sequence of calls       *)
(* LatchSpec       data availability, actor visibility, onDataAvailable    *)
(* RunnerSpec      the comparable effect of useColorTransferFunction       *)
(* MountSpec       the mount of a View: composition, container, camera     *)
(* IsolationSpec   two Views in one application                            *)
(* EventSpec       the listeners of a representation's data events         *)
(* BatchSpec       one unmount batch run to its end (weak fairness)        *)
(* SettleSpec      render scheduling, React's own steps weakly fair        *)
(***************************************************************************)
EXTENDS Integers, Sequences, FiniteSets, TLC

\* ------------------------------------------------------------------ bounds

\* Updates an outside caller may leave in a view's state queue before a commit.
MaxQueue == 2
\* requestRender() calls raised by listeners while one native render executes.
MaxReentrant == 1
\* Effects of one representation pass that report to trackModified.
MaxEffects == 2
\* The history counters stop counting here.
MaxCount == 3

\* Native handles the factories may create in one run.
MaxHandles == 3
\* markForDeletion/cancel calls a client makes between two flushes.
MaxCalls == 3
\* Times a component of the tree is mounted in one run.
MaxMounts == 2

\* The View elements an application may render, and the ones it renders
\* unless a specification says otherwise.
\* Callbacks registered with one event of a representation.
MaxListeners == 2

Views == {"v1", "v2"}
MainViews == {"v1"}
Reps == {"r1"}

\* The components that own an unmount scope: the View, the representation
\* in it, a component inside the representation and a sibling of it.
Scopes == {"view", "r1", "m1", "m2"}
Handles == 1..MaxHandles

\* The view a representation requests its renders from (useRendererContext).
viewOf(r) == "v1"

VARIABLES
    \* --- View (render scheduler) ---
    renderRequested,   \* [Views -> BOOLEAN]  useState value of the last commit
    updates,           \* [Views -> Seq(BOOLEAN)]  queued setRenderRequested calls
    effectDue,         \* [Views -> BOOLEAN]  render effect scheduled by the last commit
    autoResetCamera,   \* [Views -> BOOLEAN]  the prop of the last commit
    lastSettle,        \* [Views -> Seq(STRING)]  native calls of the last render effect run
    \* --- SliceRepresentation (synchronization pass) ---
    modifiedRef,       \* [Reps -> BOOLEAN]  useBooleanAccumulator's ref
    repPhase,          \* [Reps -> {"idle", "effects"}]
    effectsRun,        \* [Reps -> 0..MaxEffects]  effects run in the current pass
    \* --- history ---
    unserved,          \* [Views -> Nat]  requests raised since the last native render began
    reentrant,         \* [Views -> BOOLEAN]  a request was raised inside the last native render and none followed
    unrendered,        \* [Views -> BOOLEAN]  a native mutation no native render has followed
    marks,             \* [Reps -> Seq(BOOLEAN)]  trackModified arguments since the last settle effect
    passMarked,        \* [Reps -> BOOLEAN]  the last finished pass called trackModified(true)
    passRequested,     \* [Reps -> Nat]  requestRender() calls of the last finished pass
    \* --- Ordered unmount scopes ---
    scopeState,        \* [Scopes -> {"Active", "TearingDownChildren", "TearingDownSelf", "Destroyed"}]
    removing,          \* SUBSET Scopes  the subtree of the unmount batch in progress
    destroyedOrder,    \* Seq(Scopes)  teardown completions of the current batch
    \* --- Handle caches of a representation ---
    lutRef,            \* [Reps -> 0..MaxHandles]  useColorTransferFunction's lutRef.current (0: null)
    actorRef,          \* [Reps -> 0..MaxHandles]  useProp's cached actor (0: none)
    rgbFunction,       \* [1..MaxHandles -> 0..MaxHandles]  the lookup table an actor's property holds
    created,           \* Seq of [kind, owner]  the handles created so far; handle h is created[h]
    \* --- Deletion registry ---
    deletionMap,       \* SUBSET 1..MaxHandles  handles registered with their delete callback
    pendingDeletion,   \* Seq(1..MaxHandles)  the queue of handles marked for deletion
    deleteLog,         \* Seq of [h, ownerState]  delete callbacks run, with the owner scope's state then
    markCalls,         \* Seq(1..MaxHandles)  markForDeletion requests standing since the last flush
    lastFlush,         \* [calls, deleted, left]  the requests, the deletions and the queue left by the last flush
    \* --- history of the teardown side ---
    scopeInstance,     \* [Scopes -> 1..MaxMounts]  which mount of the component the scope belongs to
    teardownRuns,      \* [Scopes -> Nat]  runs of the own teardown callback of the current scope instance
    lifetime,          \* [Reps -> [gets, made, got, threw, lastThrew]]  getLUT() calls, factory calls, handles returned and factory failures in this mount
    reacquired,        \* [Reps -> [queued, got]]  the queued table at a getLUT() after the unmount hook, and the table returned
    lastMark,          \* [h, wasQueued, wasDeleted, before, after, logBefore, logAfter]  the last client markForDeletion
    \* --- SliceRepresentation (data availability, actor and property) ---
    dataAvailable,     \* [Reps -> BOOLEAN]  useState value of the last commit
    availUpdates,      \* [Reps -> Seq(BOOLEAN)]  queued setDataAvailable calls
    declaredVisibility,\* [Reps -> {"absent", "visible", "hidden"}]  props.actor?.visibility of the last render
    actorVisibility,   \* [Reps -> {"none", "visible", "hidden"}]  the visibility last applied to the actor
    propInput,         \* [Reps -> PropertyProps]  props.property of the last render
    propPrev,          \* [Reps -> [has, tuple]]  the property runner's stored previous tuple
    propertyValue,     \* [Reps -> {"default", "p1", "p2"}]  the values the actor's property holds
    hasInputData,      \* [Reps -> BOOLEAN]  the mapper has input data
    latchPc,           \* [Reps -> 1..Len(EffectOrder) + 1]  the next effect of the current pass
    eventDue,          \* [Reps -> BOOLEAN]  the data available effect is scheduled by the last commit
    everAvailable,     \* [Reps -> BOOLEAN]  dataAvailable(true) has been called
    lastReport,        \* [Reps -> BOOLEAN]  the argument of the last dataAvailable call
    lastDispatch,      \* [Reps -> [fired, input, visibility, declared, actor, property]]  the last onDataAvailable dispatch
    \* --- useColorTransferFunction (comparable effect) ---
    lutPrev,           \* [Reps -> [has, tuple]]  the runner's stored previous tuple
    lutRun,            \* [Reps -> [n, ran, count, input, before]]  the runner's passes, its last pass, the runs of its action
    \* --- SliceRepresentation (data events) ---
    listeners,         \* [Reps -> [dataAvailable, dataChanged : Seq(Callbacks)]]  the callbacks registered with each event
    lastEvent,         \* [Reps -> [event, registered, called]]  the last dispatch: the listeners then, the callbacks invoked in order
    \* --- View (composition and camera) ---
    viewState,         \* [Views -> {"absent", "mounting", "mounted"}]  rendered by the application, mount effects run
    container,         \* [Views -> BOOLEAN]  containerRef.current was an element in the View's last render
    attached,          \* [Views -> BOOLEAN]  the render window view has its container
    composition,       \* [Views -> Seq(STRING)]  the composition calls made since the mount, in order
    camera,            \* [Views -> {"initial", "scene", "bounds"}]  what the active camera is fitted to
    explicit,          \* [Views -> BOOLEAN]  view.resetCamera(bounds) was called and no native render has followed
    \* --- history of the View ---
    everAuto,          \* [Views -> BOOLEAN]  autoResetCamera was true in some render since the mount
    mountResets,       \* [Views -> Nat]  resetCamera() calls of the mount effects
    laterResets,       \* [Views -> BOOLEAN]  a settle step after the mount called resetCamera()
    early,             \* [Views -> {"none", "raised", "served"}]  a request raised before the container was attached
    lastRender         \* [Views -> [done, camera, attached, explicit, auto]]  the last native render

schedVars == <<renderRequested, updates, effectDue, autoResetCamera, lastSettle,
               modifiedRef, repPhase, effectsRun,
               unserved, reentrant, unrendered, marks, passMarked, passRequested>>
scopeVars == <<scopeState, removing, destroyedOrder>>
cacheVars == <<lutRef, actorRef, rgbFunction, created>>
registryVars == <<deletionMap, pendingDeletion, deleteLog, markCalls, lastFlush>>
auditVars == <<scopeInstance, teardownRuns, lifetime, reacquired, lastMark>>

latchVars == <<dataAvailable, availUpdates, declaredVisibility, actorVisibility,
               propInput, propPrev, propertyValue, hasInputData, latchPc,
               eventDue, everAvailable, lastReport, lastDispatch>>
runnerVars == <<lutPrev, lutRun>>
eventVars == <<listeners, lastEvent>>
cameraVars == <<viewState, container, attached, composition, camera, explicit,
                everAuto, mountResets, laterResets, early, lastRender>>
passVars == <<latchVars, runnerVars, eventVars, cameraVars>>

vars == <<schedVars, scopeVars, cacheVars, registryVars, auditVars, passVars>>

viewVars == <<renderRequested, updates, effectDue, autoResetCamera, lastSettle>>
repVars == <<modifiedRef, repPhase, effectsRun>>

\* ------------------------------------------------------------------ helpers

Last(s) == s[Len(s)]

Range(q) == {q[i] : i \in 1..Len(q)}

\* A call that is made once: the sequence with x in it.
Once(q, x) == IF x \in Range(q) THEN q ELSE Append(q, x)

Capped(n) == IF n > MaxCount THEN MaxCount ELSE n

AnyTrue(s) == \E i \in 1..Len(s) : s[i]

Count(s, x) == Cardinality({i \in 1..Len(s) : s[i] = x})

RECURSIVE Repeat(_, _)
Repeat(x, n) == IF n = 0 THEN <<>> ELSE <<x>> \o Repeat(x, n - 1)

\* ------------------------------------------------------------------ View

\* const requestRender = () => setRenderRequested(true): the update is queued.
requestRender(q) == Append(q, TRUE)

\* A state that latches: once an update has set it, it stays set.
ReduceUpdatesLatch(cur, q) == cur \/ (\E i \in 1..Len(q) : q[i])

\* What a commit makes of the queued updates: every update is a plain value,
\* so the state after the batch is the last one queued.
ReduceUpdates(cur, q) == IF q = <<>> THEN cur ELSE Last(q)

\* One pending flag for the whole application: a view reads the requests of
\* every view.
StateQueueShared(v) == updates["v1"] \o updates["v2"]

\* The queue a commit applies to the state of view v: each View instance
\* has its own useState, fed by its own setRenderRequested.
StateQueue(v) == updates[v]

\* The render effect's dependency list: it runs again after a commit in which
\* renderRequested or autoResetCamera differ from the commit before.
DepsChanged(oldReq, newReq, oldAuto, newAuto) ==
    oldReq /= newReq \/ oldAuto /= newAuto

\* A render effect that renders whether a render was requested or not.
SettleCallsUnrequested(req, auto) ==
    (IF auto THEN <<"resetCamera">> ELSE <<>>) \o <<"render">>

\* A render effect that resets the camera whatever autoResetCamera says.
SettleCallsAlwaysReset(req, auto) ==
    IF req THEN <<"resetCamera", "render">> ELSE <<>>

\* The native calls of one run of the render effect.
SettleCalls(req, auto) ==
    IF req
    THEN (IF auto THEN <<"resetCamera">> ELSE <<>>) \o <<"render">>
    ELSE <<>>

\* The updates one run of the render effect queues: k requests raised by
\* listeners while render() executes, then setRenderRequested(false).
SettleUpdates(req, k) ==
    IF req THEN Repeat(TRUE, k) \o <<FALSE>> ELSE <<>>

\* ------------------------------------------------------------------ View composition and camera

\* The render effect before the hooks that compose the view.
ViewEffectOrderRenderFirst ==
    <<"render", "setContainer", "addView", "addRenderer", "setView">>

\* The effects of the View in the order its hooks declare them:
\* useRenderWindowView (the view takes its container), useRenderWindow (the
\* render window takes the view, then the renderer), useInteractor (the
\* interactor takes the view and binds to the container), the render effect.
ViewEffectOrder ==
    <<"setContainer", "addView", "addRenderer", "setView", "render">>

NoRender ==
    [done |-> FALSE, camera |-> "initial", attached |-> FALSE,
     explicit |-> FALSE, auto |-> FALSE]

\* getRenderer().resetCamera(boundsToUse): the camera is fitted to the
\* bounds given, or to the visible scene.
ResetCamera(bounds) == IF bounds THEN "bounds" ELSE "scene"

\* One effect of the View on s = [attached, composition, camera, resets,
\* rendered], for the render in = [container, req, auto].
ViewStep(s, name, in) ==
    CASE name = "setContainer" ->
             [s EXCEPT !.attached = @ \/ in.container]
      [] name = "addView" ->
             [s EXCEPT !.composition = Once(@, "addView")]
      [] name = "addRenderer" ->
             [s EXCEPT !.composition = Once(@, "addRenderer")]
      [] name = "setView" ->
             [s EXCEPT !.composition = IF in.container THEN Once(@, "setView") ELSE @]
      [] name = "render" ->
             LET calls == SettleCalls(in.req, in.auto)
                 cam == IF "resetCamera" \in Range(calls)
                        THEN ResetCamera(FALSE) ELSE s.camera
             IN  [s EXCEPT
                     !.camera = cam,
                     !.resets = Count(calls, "resetCamera"),
                     !.rendered =
                         IF "render" \in Range(calls)
                         THEN [done |-> TRUE, camera |-> cam,
                               attached |-> s.attached,
                               explicit |-> in.explicit, auto |-> in.auto]
                         ELSE @]
      [] OTHER -> s

RECURSIVE RunViewEffects(_, _, _)
RunViewEffects(s, order, in) ==
    IF order = <<>> THEN s
    ELSE RunViewEffects(ViewStep(s, Head(order), in), Tail(order), in)

\* The View re-renders in a commit that applies a state update of its own or
\* hands it new props.
ViewRenders(v, newAuto) ==
    /\ viewState[v] /= "absent"
    /\ updates[v] /= <<>> \/ newAuto[v] /= autoResetCamera[v]

\* ------------------------------------------------------------------ Dirty accumulator

\* trackModified(b): ORs b into the sticky flag.
trackModified(flag, b) == flag \/ b

\* resetModified(): clears the flag.
resetModified(flag) == FALSE

\* A settle effect that requests a render for the flag and once more.
SettleRequestsTwice(flag) == IF flag THEN 2 ELSE 0

\* The settle effect of a representation: if (modifiedRef.current)
\* { renderer.requestRender(); resetModified(); }
SettleRequests(flag) == IF flag THEN 1 ELSE 0
\* The settle effect without its resetModified() call.
SettleFlagNoReset(flag) == flag
SettleFlag(flag) == IF flag THEN resetModified(flag) ELSE flag

\* ------------------------------------------------------------------ Comparable effect

\* useComparableEffect(action, tuple, equal): the action runs when there is
\* no previous tuple or when equal(tuple, previous) fails.
RunnerRuns(prev, equal) == ~prev.has \/ ~equal

\* The tuple of the pass becomes the previous tuple.
RunnerStore(prev, cur) == [has |-> TRUE, tuple |-> cur]

\* compareVector2: two ranges with the same bounds.
compareVector2(a, b) == a[1] = b[1] /\ a[2] = b[2]

\* compareShallowObject: two objects with the same fields and values, or
\* both undefined.
compareShallowObject(a, b) == a.value = b.value

\* The objects a render may pass: ref tells one array or object from
\* another, value is what it holds.
Refs == 1..2
Presets == {"Grayscale", "jet"}
Ranges == [ref : Refs, value : {<<0, 1>>, <<0, 255>>}]
LutInputs == [preset : Presets, range : Ranges]
AbsentProperty == [ref |-> 0, value |-> "absent"]
PropertyProps == {AbsentProperty} \cup [ref : Refs, value : {"p1", "p2"}]

NoLutTuple ==
    [has |-> FALSE,
     tuple |-> [preset |-> "Grayscale", range |-> [ref |-> 1, value |-> <<0, 1>>]]]
NoPropertyTuple == [has |-> FALSE, tuple |-> AbsentProperty]

\* A comparator that tells two arrays apart by reference.
LutInputsIdentical(cur, old) ==
    cur.preset = old.preset /\ cur.range.ref = old.range.ref

\* A comparator that forgets the range.
LutInputsEqualPreset(cur, old) == cur.preset = old.preset

\* The comparator of useColorTransferFunction:
\* curPreset === oldPreset && compareVector2(curRange, oldRange)
LutInputsEqual(cur, old) ==
    cur.preset = old.preset /\ compareVector2(cur.range.value, old.range.value)

\* The comparator of the property effect: compareShallowObject(cur, prev)
PropertyInputsEqual(cur, old) == compareShallowObject(cur, old)

\* ------------------------------------------------------------------ Actor visibility

\* The visibility of the actor following the declared one at once.
VisibilityDeclared(available, declared) == declared /= "hidden"

\* The visibility of the actor following data availability alone.
VisibilityAvailable(available, declared) == available

\* actorProps.visibility: dataAvailable && (props.actor?.visibility ?? true)
Visibility(available, declared) == available /\ declared /= "hidden"

Applied(visible) == IF visible THEN "visible" ELSE "hidden"

\* The data available effect before the effects that configure the actor.
EffectOrderEventFirst == <<"event", "actor", "property">>

\* The effects of a pass in the order the component declares them: useProp
\* (actor props), the property effect, the data available effect.
EffectOrder == <<"actor", "property", "event">>

\* A dispatch that calls the listener registered last first.
DispatchOrderLifo(ls) == [i \in 1..Len(ls) |-> ls[Len(ls) + 1 - i]]

\* dispatchEvent(data): the callbacks invoked, in order, for the listeners
\* ls of the event: each one once, in the order of registration.
DispatchOrder(ls) == ls

\* addEventListener(cb): the callback joins the listeners of the event; a
\* callback is named by its place in the order of registration.
AddEventListener(ls) == Append(ls, Len(ls) + 1)

\* The record of a dispatch that found listeners.
AfterDispatch(last, event, ls) ==
    IF ls = <<>> THEN last
    ELSE [event |-> event, registered |-> ls, called |-> DispatchOrder(ls)]

NoDispatch ==
    [fired |-> FALSE, input |-> FALSE, visibility |-> "none",
     declared |-> "absent", actor |-> FALSE, property |-> FALSE]

\* ------------------------------------------------------------------ Init

\* The application renders the views in P.
SchedInitOf(P) ==
    /\ renderRequested = [v \in Views |-> FALSE]
    /\ updates = [v \in Views |-> <<>>]
    /\ effectDue = [v \in Views |-> v \in P]
    /\ autoResetCamera \in {a \in [Views -> BOOLEAN] : \A v \in Views \ P : a[v]}
    /\ lastSettle = [v \in Views |-> <<>>]
    /\ modifiedRef = [r \in Reps |-> FALSE]
    /\ repPhase = [r \in Reps |-> "effects"]
    /\ effectsRun = [r \in Reps |-> 0]
    /\ unserved = [v \in Views |-> 0]
    /\ reentrant = [v \in Views |-> FALSE]
    /\ unrendered = [v \in Views |-> FALSE]
    /\ marks = [r \in Reps |-> <<>>]
    /\ passMarked = [r \in Reps |-> FALSE]
    /\ passRequested = [r \in Reps |-> 0]

SchedInit == SchedInitOf(MainViews)

CameraInitOf(P) ==
    /\ viewState = [v \in Views |-> IF v \in P THEN "mounting" ELSE "absent"]
    /\ container = [v \in Views |-> FALSE]
    /\ attached = [v \in Views |-> FALSE]
    /\ composition = [v \in Views |-> <<>>]
    /\ camera = [v \in Views |-> "initial"]
    /\ explicit = [v \in Views |-> FALSE]
    /\ everAuto = autoResetCamera
    /\ mountResets = [v \in Views |-> 0]
    /\ laterResets = [v \in Views |-> FALSE]
    /\ early = [v \in Views |-> "none"]
    /\ lastRender = [v \in Views |-> NoRender]

CameraInit == CameraInitOf(MainViews)

NoEvent == [event |-> "none", registered |-> <<>>, called |-> <<>>]

EventInit ==
    /\ listeners = [r \in Reps |-> [dataAvailable |-> <<>>, dataChanged |-> <<>>]]
    /\ lastEvent = [r \in Reps |-> NoEvent]

TeardownInit ==
    /\ scopeState = [s \in Scopes |-> "Active"]
    /\ removing = {}
    /\ destroyedOrder = <<>>
    /\ lutRef = [r \in Reps |-> 0]
    /\ actorRef = [r \in Reps |-> 0]
    /\ rgbFunction = [h \in Handles |-> 0]
    /\ created = <<>>
    /\ deletionMap = {}
    /\ pendingDeletion = <<>>
    /\ deleteLog = <<>>
    /\ markCalls = <<>>
    /\ lastFlush = [calls |-> <<>>, deleted |-> <<>>, left |-> <<>>]

NoLifetime ==
    [gets |-> 0, made |-> 0, got |-> {}, threw |-> 0, lastThrew |-> FALSE]

NoMark ==
    [h |-> 0, wasQueued |-> FALSE, wasDeleted |-> FALSE,
     before |-> <<>>, after |-> <<>>, logBefore |-> <<>>, logAfter |-> <<>>]

AuditInit ==
    /\ scopeInstance = [s \in Scopes |-> 1]
    /\ teardownRuns = [s \in Scopes |-> 0]
    /\ lifetime = [r \in Reps |-> NoLifetime]
    /\ reacquired = [r \in Reps |-> [queued |-> 0, got |-> 0]]
    /\ lastMark = NoMark

NoRun ==
    [n |-> 0, ran |-> FALSE, count |-> 0, input |-> NoLutTuple.tuple,
     before |-> NoLutTuple]

PassInit ==
    /\ dataAvailable = [r \in Reps |-> FALSE]
    /\ availUpdates = [r \in Reps |-> <<>>]
    /\ declaredVisibility = [r \in Reps |-> "absent"]
    /\ actorVisibility = [r \in Reps |-> "none"]
    /\ propInput = [r \in Reps |-> AbsentProperty]
    /\ propPrev = [r \in Reps |-> NoPropertyTuple]
    /\ propertyValue = [r \in Reps |-> "default"]
    /\ hasInputData = [r \in Reps |-> FALSE]
    /\ latchPc = [r \in Reps |-> 1]
    /\ eventDue = [r \in Reps |-> TRUE]
    /\ everAvailable = [r \in Reps |-> FALSE]
    /\ lastReport = [r \in Reps |-> FALSE]
    /\ lastDispatch = [r \in Reps |-> NoDispatch]
    /\ lutPrev = [r \in Reps |-> NoLutTuple]
    /\ lutRun = [r \in Reps |-> NoRun]

Init ==
    SchedInit /\ TeardownInit /\ AuditInit /\ PassInit /\ EventInit /\ CameraInit

\* ------------------------------------------------------------------ actions

EffectsFlushed ==
    /\ \A v \in Views : ~effectDue[v]
    /\ \A r \in Reps : repPhase[r] = "idle"

\* view.requestRender() called from outside a pass (a timer, an animation
\* frame, a resize or data callback).
ExternalRequest(v) ==
    /\ viewState[v] /= "absent"
    /\ Len(updates[v]) < MaxQueue
    /\ updates' = [updates EXCEPT ![v] = requestRender(@)]
    /\ unserved' = [unserved EXCEPT ![v] = Capped(@ + 1)]
    /\ UNCHANGED <<renderRequested, effectDue, autoResetCamera, lastSettle,
                   repVars, reentrant, unrendered, marks, passMarked,
                   passRequested>>
    /\ UNCHANGED <<scopeVars, cacheVars, registryVars, auditVars>>
    /\ UNCHANGED passVars

\* One React commit: the queued updates of every view are applied, the views
\* get the props of this render, the representations in S re-render.
Commit(newAuto, S) ==
    /\ EffectsFlushed
    /\ \A v \in Views : viewState[v] = "absent" => newAuto[v] = autoResetCamera[v]
    /\ \/ S /= {}
       \/ \E v \in Views : updates[v] /= <<>> \/ newAuto[v] /= autoResetCamera[v]
    /\ renderRequested' =
           [v \in Views |-> ReduceUpdates(renderRequested[v], StateQueue(v))]
    /\ updates' = [v \in Views |-> <<>>]
    /\ autoResetCamera' = newAuto
    /\ effectDue' =
           [v \in Views |->
               DepsChanged(renderRequested[v],
                           ReduceUpdates(renderRequested[v], StateQueue(v)),
                           autoResetCamera[v], newAuto[v])]
    /\ repPhase' = [r \in Reps |-> IF r \in S THEN "effects" ELSE repPhase[r]]
    /\ effectsRun' = [r \in Reps |-> IF r \in S THEN 0 ELSE effectsRun[r]]
    /\ container' = [v \in Views |-> container[v] \/ ViewRenders(v, newAuto)]
    /\ everAuto' = [v \in Views |-> everAuto[v] \/ newAuto[v]]
    /\ early' = [v \in Views |->
                     IF updates[v] /= <<>> /\ ~attached[v] /\ early[v] = "none"
                     THEN "raised" ELSE early[v]]
    /\ UNCHANGED <<lastSettle, modifiedRef, unserved, reentrant, unrendered,
                   marks, passMarked, passRequested>>
    /\ UNCHANGED <<scopeVars, cacheVars, registryVars, auditVars>>
    /\ UNCHANGED <<viewState, attached, composition, camera, explicit,
                   mountResets, laterResets, lastRender>>

\* A commit in which no representation state or prop changes.
ViewCommit(newAuto, S) ==
    Commit(newAuto, S) /\ UNCHANGED <<latchVars, runnerVars, eventVars>>

\* One effect of a representation pass applies its input to the native
\* object and reports whether that modified it.
RepEffect(r, b) ==
    /\ repPhase[r] = "effects"
    /\ effectsRun[r] < MaxEffects
    /\ effectsRun' = [effectsRun EXCEPT ![r] = @ + 1]
    /\ modifiedRef' = [modifiedRef EXCEPT ![r] = trackModified(@, b)]
    /\ marks' = [marks EXCEPT ![r] = Append(@, b)]
    /\ unrendered' = [unrendered EXCEPT ![viewOf(r)] = @ \/ b]
    /\ UNCHANGED <<viewVars, repPhase, unserved, reentrant, passMarked,
                   passRequested>>
    /\ UNCHANGED <<scopeVars, cacheVars, registryVars, auditVars>>
    /\ UNCHANGED passVars

\* The last effect of a representation pass.
RepSettle(r) ==
    /\ repPhase[r] = "effects"
    /\ updates' = [updates EXCEPT ![viewOf(r)] =
                       @ \o Repeat(TRUE, SettleRequests(modifiedRef[r]))]
    /\ unserved' = [unserved EXCEPT ![viewOf(r)] =
                       Capped(@ + SettleRequests(modifiedRef[r]))]
    /\ passRequested' = [passRequested EXCEPT ![r] = SettleRequests(modifiedRef[r])]
    /\ modifiedRef' = [modifiedRef EXCEPT ![r] = SettleFlag(@)]
    /\ passMarked' = [passMarked EXCEPT ![r] = AnyTrue(marks[r])]
    /\ marks' = [marks EXCEPT ![r] = <<>>]
    /\ repPhase' = [repPhase EXCEPT ![r] = "idle"]
    /\ UNCHANGED <<renderRequested, effectDue, autoResetCamera, lastSettle,
                   effectsRun, reentrant, unrendered>>
    /\ UNCHANGED <<scopeVars, cacheVars, registryVars, auditVars>>
    /\ UNCHANGED passVars

\* The render effect of a view, after the effects of its representations;
\* k requests are raised by listeners while the native render executes.
ViewEffect(v, k) ==
    /\ effectDue[v]
    /\ \A r \in Reps : viewOf(r) = v => repPhase[r] = "idle"
    /\ renderRequested[v] \/ k = 0
    /\ lastSettle' = [lastSettle EXCEPT ![v] =
                          SettleCalls(renderRequested[v], autoResetCamera[v])]
    /\ updates' = [updates EXCEPT ![v] = @ \o SettleUpdates(renderRequested[v], k)]
    /\ effectDue' = [effectDue EXCEPT ![v] = FALSE]
    /\ unserved' = [unserved EXCEPT ![v] = IF renderRequested[v] THEN k ELSE @]
    /\ reentrant' = [reentrant EXCEPT ![v] = IF renderRequested[v] THEN k > 0 ELSE @]
    /\ unrendered' = [unrendered EXCEPT ![v] = IF renderRequested[v] THEN FALSE ELSE @]
    /\ LET out == RunViewEffects(
                      [attached |-> attached[v], composition |-> composition[v],
                       camera |-> camera[v], resets |-> 0,
                       rendered |-> lastRender[v]],
                      ViewEffectOrder,
                      [container |-> container[v], req |-> renderRequested[v],
                       auto |-> autoResetCamera[v], explicit |-> explicit[v]])
       IN
           /\ attached' = [attached EXCEPT ![v] = out.attached]
           /\ composition' = [composition EXCEPT ![v] = out.composition]
           /\ camera' = [camera EXCEPT ![v] = out.camera]
           /\ lastRender' = [lastRender EXCEPT ![v] = out.rendered]
           /\ mountResets' = [mountResets EXCEPT ![v] =
                                  IF viewState[v] = "mounting" THEN out.resets ELSE @]
           /\ laterResets' = [laterResets EXCEPT ![v] =
                                  @ \/ (viewState[v] = "mounted" /\ out.resets > 0)]
    /\ viewState' = [viewState EXCEPT ![v] = "mounted"]
    /\ explicit' = [explicit EXCEPT ![v] = IF renderRequested[v] THEN FALSE ELSE @]
    /\ early' = [early EXCEPT ![v] =
                     IF renderRequested[v] /\ @ = "raised" THEN "served" ELSE @]
    /\ UNCHANGED <<renderRequested, autoResetCamera, repVars, marks,
                   passMarked, passRequested>>
    /\ UNCHANGED <<scopeVars, cacheVars, registryVars, auditVars>>
    /\ UNCHANGED <<latchVars, runnerVars, eventVars, container, everAuto>>

Next ==
    \/ \E v \in Views : ExternalRequest(v)
    \/ \E a \in [Views -> BOOLEAN], S \in SUBSET Reps : ViewCommit(a, S)
    \/ \E r \in Reps, b \in BOOLEAN : RepEffect(r, b)
    \/ \E r \in Reps : RepSettle(r)
    \/ \E v \in Views, k \in 0..MaxReentrant : ViewEffect(v, k)

Spec == Init /\ [][Next]_vars

\* The steps React takes by itself once the inputs have stopped: the commit
\* that applies the queued updates with unchanged props, the effects and
\* the settle effect of a representation pass under way, the render effect
\* of a view with no listener raising a request inside render().
InternalStep ==
    \/ ViewCommit(autoResetCamera, {})
    \/ \E r \in Reps, b \in BOOLEAN : RepEffect(r, b)
    \/ \E r \in Reps : RepSettle(r)
    \/ \E v \in Views : ViewEffect(v, 0)

\* React applies a queued state update and runs the effects that are due: a
\* step it can take by itself is taken.
SettleSpec == Init /\ [][Next]_vars /\ WF_vars(InternalStep)

\* ------------------------------------------------------------------ Deletion registry

\* The calls a hook makes on the registry, in order.
Call(op, h) == [op |-> op, h |-> h]

\* deletionRegistry.register(handle, onDelete): remembers the delete callback.
Register(map, h) == map \cup {h}

\* markForDeletion without the already-queued check.
MarkForDeletionNoDedup(queue, map, h) ==
    IF h \in map THEN Append(queue, h) ELSE queue

\* markForDeletion queueing a handle whose delete callback is gone already.
MarkForDeletionUnregistered(queue, map, h) ==
    IF h \notin Range(queue) THEN Append(queue, h) ELSE queue

\* deletionRegistry.markForDeletion(handle): queues a registered handle that
\* is not already queued.
MarkForDeletion(queue, map, h) ==
    IF h \in map /\ h \notin Range(queue) THEN Append(queue, h) ELSE queue

\* cancel(handle): takes the handle out of the queue.
Cancel(queue, h) == SelectSeq(queue, LAMBDA x : x /= h)

\* The scope whose component created the handle, and the state it is in.
OwnerState(h) ==
    IF created[h].owner \in Scopes THEN scopeState[created[h].owner] ELSE "none"

Deleted(q) == [i \in 1..Len(q) |-> [h |-> q[i], ownerState |-> OwnerState(q[i])]]

\* Times the delete callback of handle h has run.
DeleteCount(h) == Cardinality({i \in 1..Len(deleteLog) : deleteLog[i].h = h})

\* The registry as one value, and the registry after one call on it.
Registry ==
    [map |-> deletionMap, queue |-> pendingDeletion, log |-> deleteLog,
     calls |-> markCalls]

AfterCall(reg, c) ==
    CASE c.op = "register" ->
             [reg EXCEPT !.map = Register(@, c.h)]
      [] c.op = "markForDeletion" ->
             [reg EXCEPT !.queue = MarkForDeletion(@, reg.map, c.h),
                         !.calls = IF c.h \in reg.map THEN Append(@, c.h) ELSE @]
      [] c.op = "cancel" ->
             [reg EXCEPT !.queue = Cancel(@, c.h),
                         !.calls = Cancel(@, c.h)]
      [] c.op = "delete" ->
             [reg EXCEPT !.map = @ \ {c.h},
                         !.queue = Cancel(@, c.h),
                         !.log = @ \o Deleted(<<c.h>>)]
      [] OTHER -> reg

RECURSIVE AfterCalls(_, _)
AfterCalls(reg, cs) ==
    IF cs = <<>> THEN reg ELSE AfterCalls(AfterCall(reg, Head(cs)), Tail(cs))

\* A flush that runs the callbacks last in, first out.
FlushOrderLifo(queue) == [i \in 1..Len(queue) |-> queue[Len(queue) + 1 - i]]

\* flush(): runs the queued delete callbacks first in, first out, and
\* empties the queue.
FlushOrder(queue) == queue

AfterFlush(reg) ==
    [reg EXCEPT !.map = @ \ Range(reg.queue),
                !.queue = <<>>,
                !.log = @ \o Deleted(FlushOrder(reg.queue)),
                !.calls = <<>>]

SetRegistry(reg) ==
    /\ deletionMap' = reg.map
    /\ pendingDeletion' = reg.queue
    /\ deleteLog' = reg.log
    /\ markCalls' = reg.calls

\* ------------------------------------------------------------------ Handle caches

\* A getter that calls the factory at every call.
CacheGetFresh(ref, fresh) == fresh

\* useGetterRef's getter: the cached handle, or the one the factory makes now.
CacheGet(ref, fresh) == IF ref /= 0 THEN ref ELSE fresh

\* What one get() adds to the record of a mount: the call, the factory call
\* if the slot was empty, the handle returned.
AfterGet(life, ref, h) ==
    [gets |-> Capped(life.gets + 1),
     made |-> Capped(life.made + (IF ref = 0 THEN 1 ELSE 0)),
     got |-> life.got \cup {h},
     threw |-> life.threw,
     lastThrew |-> FALSE]

\* The factory of the lookup table: newInstance(), then
\* deletionRegistry.register(func, () => func.delete()).
LutFactoryCalls(h) == <<Call("register", h)>>

\* The places where the factory may throw.
FactorySteps == {"newInstance", "register"}

\* The native object a factory call has built when it throws at a step.
BuiltBefore(step, fresh) == IF step = "register" THEN fresh ELSE 0

\* A getter that stores what the factory had built when it threw.
CacheAfterThrowBuilt(ref, built) == built

\* useGetterRef when the factory throws: nothing is stored, the slot stays
\* as it was.
CacheAfterThrow(ref, built) == ref

\* The factory of the actor (useProp), registered the same way.
ActorFactoryCalls(h) == <<Call("register", h)>>

\* The unmount hook without its markForDeletion call.
LutUnmountCallsNone(ref) == <<>>

\* The unmount hook deleting the table itself instead of queueing it.
LutUnmountCallsDelete(ref) ==
    IF ref /= 0 THEN <<Call("delete", ref)>> ELSE <<>>

\* useColorTransferFunction's useUnmount: if (lutRef.current)
\* { markForDeletion(lutRef.current); lutRef.current = null; }
LutUnmountCalls(ref) ==
    IF ref /= 0 THEN <<Call("markForDeletion", ref)>> ELSE <<>>
LutUnmountRef(ref) == IF ref /= 0 THEN 0 ELSE ref

\* The actor's teardown: marks the cached actor for deletion and drops it.
ActorTeardownCalls(ref) ==
    IF ref /= 0 THEN <<Call("markForDeletion", ref)>> ELSE <<>>

\* ------------------------------------------------------------------ Unmount scopes

\* The component tree: the View renders its children, the representation
\* renders its own.
ComponentParent(s) ==
    CASE s = "r1" -> "view"
      [] s = "m2" -> "view"
      [] s = "m1" -> "r1"
      [] OTHER -> "none"

ComponentChildren(s) == {c \in Scopes : ComponentParent(c) = s}

RECURSIVE Subtree(_)
Subtree(s) == {s} \cup UNION {Subtree(c) : c \in ComponentChildren(s)}

\* The View rendering props.children outside its Provider.
ViewScopeChildrenNone == {}

\* The scopes that register with the View's scope: the View renders
\* props.children inside its OrderedUnmountContext.Provider.
ViewScopeChildren == ComponentChildren("view")

\* The scope tree mirrors the component tree.
ScopeChildren(s) ==
    IF s = "view" THEN ViewScopeChildren ELSE ComponentChildren(s)

\* Active -> TearingDownChildren on the removal signal; a scope with no
\* children goes to TearingDownSelf at once.
OnRemovalSignal(s) ==
    IF ScopeChildren(s) = {} THEN "TearingDownSelf" ELSE "TearingDownChildren"

\* A scope that also waits for itself.
ChildrenDestroyedSelf(s) ==
    \A c \in ScopeChildren(s) \cup {s} : scopeState[c] = "Destroyed"

ChildrenDestroyed(s) ==
    \A c \in ScopeChildren(s) : scopeState[c] = "Destroyed"

Mounted(s) == scopeState[s] = "Active" /\ s \notin removing

\* ------------------------------------------------------------------ teardown actions

\* The effect of useColorTransferFunction that configures the lookup table:
\* getLUT(), then applyColorMap / setMappingRange on it.
ApplyColorMap(r) ==
    /\ Mounted(r)
    /\ lutRef[r] /= 0 \/ Len(created) < MaxHandles
    /\ LET h == CacheGet(lutRef[r], Len(created) + 1) IN
           /\ lutRef' = [lutRef EXCEPT ![r] = h]
           /\ created' = IF lutRef[r] = 0
                         THEN Append(created, [kind |-> "lut", owner |-> r])
                         ELSE created
           /\ SetRegistry(AfterCalls(Registry,
                  IF lutRef[r] = 0 THEN LutFactoryCalls(h) ELSE <<>>))
           /\ lifetime' = [lifetime EXCEPT ![r] = AfterGet(@, lutRef[r], h)]
    /\ UNCHANGED <<actorRef, rgbFunction, lastFlush, scopeVars, schedVars>>
    /\ UNCHANGED <<scopeInstance, teardownRuns, reacquired, lastMark>>
    /\ UNCHANGED passVars

\* The effect of SliceRepresentation that hands the lookup table to the
\* actor: getActor().getProperty().setRGBTransferFunction(0, getLookupTable()).
WireLookupTable(r) ==
    /\ Mounted(r)
    /\ Len(created) + (IF actorRef[r] = 0 THEN 1 ELSE 0)
                    + (IF lutRef[r] = 0 THEN 1 ELSE 0) <= MaxHandles
    /\ LET a == CacheGet(actorRef[r], Len(created) + 1)
           made == IF actorRef[r] = 0
                   THEN Append(created, [kind |-> "actor", owner |-> r])
                   ELSE created
           l == CacheGet(lutRef[r], Len(made) + 1)
       IN
           /\ actorRef' = [actorRef EXCEPT ![r] = a]
           /\ lutRef' = [lutRef EXCEPT ![r] = l]
           /\ created' = IF lutRef[r] = 0
                         THEN Append(made, [kind |-> "lut", owner |-> r])
                         ELSE made
           /\ rgbFunction' = [rgbFunction EXCEPT ![a] = l]
           /\ SetRegistry(AfterCalls(Registry,
                  (IF actorRef[r] = 0 THEN ActorFactoryCalls(a) ELSE <<>>)
                  \o (IF lutRef[r] = 0 THEN LutFactoryCalls(l) ELSE <<>>)))
           /\ lifetime' = [lifetime EXCEPT ![r] = AfterGet(@, lutRef[r], l)]
    /\ UNCHANGED <<lastFlush, scopeVars, schedVars>>
    /\ UNCHANGED <<scopeInstance, teardownRuns, reacquired, lastMark>>
    /\ UNCHANGED passVars

\* A subtree of the component tree is removed: one unmount batch begins.
Remove(s) ==
    /\ removing = {}
    /\ scopeState[s] = "Active"
    /\ removing' = Subtree(s)
    /\ destroyedOrder' = <<>>
    /\ UNCHANGED <<scopeState, cacheVars, registryVars, schedVars, auditVars>>
    /\ UNCHANGED passVars

\* React runs the unmount hooks of one removed component, in the order the
\* component declared them: useColorTransferFunction's useUnmount, then the
\* removal signal of its scope.
UnmountHooks(s) ==
    /\ s \in removing
    /\ scopeState[s] = "Active"
    /\ scopeState' = [scopeState EXCEPT ![s] = OnRemovalSignal(s)]
    /\ IF s \in Reps
       THEN /\ SetRegistry(AfterCalls(Registry, LutUnmountCalls(lutRef[s])))
            /\ lutRef' = [lutRef EXCEPT ![s] = LutUnmountRef(@)]
       ELSE UNCHANGED <<lutRef, deletionMap, pendingDeletion, deleteLog, markCalls>>
    /\ UNCHANGED <<removing, destroyedOrder, actorRef, rgbFunction, created,
                   lastFlush, schedVars, auditVars>>
    /\ UNCHANGED passVars

\* TearingDownChildren -> TearingDownSelf once every child scope is Destroyed.
ChildrenDone(s) ==
    /\ scopeState[s] = "TearingDownChildren"
    /\ ChildrenDestroyed(s)
    /\ scopeState' = [scopeState EXCEPT ![s] = "TearingDownSelf"]
    /\ UNCHANGED <<removing, destroyedOrder, cacheVars, registryVars, schedVars,
                   auditVars>>
    /\ UNCHANGED passVars

\* TearingDownSelf -> Destroyed: the scope's own teardown callback runs.
OwnTeardown(s) ==
    /\ scopeState[s] = "TearingDownSelf"
    /\ scopeState' = [scopeState EXCEPT ![s] = "Destroyed"]
    /\ destroyedOrder' = Append(destroyedOrder, s)
    /\ IF s \in Reps
       THEN /\ SetRegistry(AfterCalls(Registry, ActorTeardownCalls(actorRef[s])))
            /\ actorRef' = [actorRef EXCEPT ![s] = 0]
       ELSE UNCHANGED <<actorRef, deletionMap, pendingDeletion, deleteLog, markCalls>>
    /\ teardownRuns' = [teardownRuns EXCEPT ![s] = Capped(@ + 1)]
    /\ UNCHANGED <<removing, lutRef, rgbFunction, created, lastFlush, schedVars>>
    /\ UNCHANGED <<scopeInstance, lifetime, reacquired, lastMark>>
    /\ UNCHANGED passVars

\* The end of the unmount batch: the registry is flushed.
Flush ==
    /\ removing /= {}
    /\ \A s \in removing : scopeState[s] = "Destroyed"
    /\ SetRegistry(AfterFlush(Registry))
    /\ lastFlush' = [calls |-> markCalls,
                     deleted |-> FlushOrder(pendingDeletion),
                     left |-> AfterFlush(Registry).queue]
    /\ removing' = {}
    /\ UNCHANGED <<scopeState, destroyedOrder, cacheVars, schedVars, auditVars>>
    /\ UNCHANGED passVars

\* A removed component is mounted again, as a new instance with new scopes
\* and new refs: the cache slot of the new instance starts empty.
Remount(s) ==
    /\ removing = {}
    /\ scopeState[s] = "Destroyed"
    /\ ComponentParent(s) \in Scopes => scopeState[ComponentParent(s)] = "Active"
    /\ scopeInstance[s] < MaxMounts
    /\ scopeState' = [scopeState EXCEPT ![s] = "Active"]
    /\ scopeInstance' = [scopeInstance EXCEPT ![s] = @ + 1]
    /\ teardownRuns' = [teardownRuns EXCEPT ![s] = 0]
    /\ lifetime' = [r \in Reps |-> IF r = s THEN NoLifetime ELSE lifetime[r]]
    /\ lutRef' = [r \in Reps |-> IF r = s THEN 0 ELSE lutRef[r]]
    /\ UNCHANGED <<removing, destroyedOrder, actorRef, rgbFunction, created>>
    /\ UNCHANGED <<registryVars, schedVars, reacquired, lastMark>>
    /\ UNCHANGED passVars

TeardownNext ==
    \/ \E r \in Reps : ApplyColorMap(r)
    \/ \E r \in Reps : WireLookupTable(r)
    \/ \E s \in Scopes : Remove(s)
    \/ \E s \in Scopes : UnmountHooks(s)
    \/ \E s \in Scopes : ChildrenDone(s)
    \/ \E s \in Scopes : OwnTeardown(s)
    \/ Flush
    \/ \E s \in Scopes : Remount(s)

TeardownSpec == Init /\ [][TeardownNext]_vars

\* One unmount batch run to its end: React runs the unmount hooks of every
\* removed component, the scopes run their teardowns and the registry is
\* flushed in the same commit, so a step of the batch that can be taken is
\* taken.
BatchStep ==
    \/ \E s \in Scopes : UnmountHooks(s)
    \/ \E s \in Scopes : ChildrenDone(s)
    \/ \E s \in Scopes : OwnTeardown(s)
    \/ Flush

BatchNext ==
    \/ \E r \in Reps : ApplyColorMap(r)
    \/ \E r \in Reps : WireLookupTable(r)
    \/ \E s \in Scopes : Remove(s)
    \/ \E s \in Scopes : UnmountHooks(s)
    \/ \E s \in Scopes : ChildrenDone(s)
    \/ \E s \in Scopes : OwnTeardown(s)
    \/ Flush

BatchSpec == Init /\ [][BatchNext]_vars /\ WF_vars(BatchStep)

\* ------------------------------------------------------------------ re-acquisition

\* The lookup tables of representation r that wait in the deletion queue.
QueuedTables(r) ==
    {h \in 1..Len(created) :
        /\ created[h].kind = "lut" /\ created[h].owner = r
        /\ h \in Range(pendingDeletion)}

\* getLookupTable() called again after the unmount hook of the component
\* ran and before its scope is Destroyed (its effects run again before the
\* teardown has completed): the getter finds lutRef.current and, if it is
\* null, calls the factory.
Reacquire(r) ==
    /\ r \in removing
    /\ scopeState[r] \in {"TearingDownChildren", "TearingDownSelf"}
    /\ QueuedTables(r) /= {}
    /\ reacquired[r].queued = 0
    /\ lutRef[r] /= 0 \/ Len(created) < MaxHandles
    /\ LET h == CacheGet(lutRef[r], Len(created) + 1) IN
           /\ lutRef' = [lutRef EXCEPT ![r] = h]
           /\ created' = IF lutRef[r] = 0
                         THEN Append(created, [kind |-> "lut", owner |-> r])
                         ELSE created
           /\ SetRegistry(AfterCalls(Registry,
                  IF lutRef[r] = 0 THEN LutFactoryCalls(h) ELSE <<>>))
           /\ lifetime' = [lifetime EXCEPT ![r] = AfterGet(@, lutRef[r], h)]
           /\ reacquired' = [reacquired EXCEPT ![r] =
                  [queued |-> CHOOSE q \in QueuedTables(r) : TRUE, got |-> h]]
    /\ UNCHANGED <<actorRef, rgbFunction, lastFlush, scopeVars, schedVars>>
    /\ UNCHANGED <<scopeInstance, teardownRuns, lastMark>>
    /\ UNCHANGED passVars

ResurrectionNext ==
    \/ TeardownNext
    \/ \E r \in Reps : Reacquire(r)

ResurrectionSpec == Init /\ [][ResurrectionNext]_vars

\* ------------------------------------------------------------------ construction failure

\* getLUT() on an empty slot with the factory throwing at a step: at
\* newInstance() nothing has been built, at deletionRegistry.register() the
\* table exists and is not registered; the error reaches the effect that
\* called getLUT(), which does nothing more.
GetLutThrows(r, step) ==
    /\ Mounted(r)
    /\ lutRef[r] = 0
    /\ lifetime[r].threw < MaxCount - 1
    /\ step = "register" => Len(created) < MaxHandles
    /\ created' = IF step = "register"
                  THEN Append(created, [kind |-> "lut", owner |-> r])
                  ELSE created
    /\ lutRef' = [lutRef EXCEPT ![r] =
                     CacheAfterThrow(@, BuiltBefore(step, Len(created) + 1))]
    /\ lifetime' = [lifetime EXCEPT ![r] =
                       [gets |-> Capped(@.gets + 1),
                        made |-> Capped(@.made + 1),
                        got |-> @.got,
                        threw |-> @.threw + 1,
                        lastThrew |-> TRUE]]
    /\ UNCHANGED <<actorRef, rgbFunction, registryVars, scopeVars, schedVars,
                   passVars>>
    /\ UNCHANGED <<scopeInstance, teardownRuns, reacquired, lastMark>>

CacheNext ==
    \/ \E r \in Reps : ApplyColorMap(r)
    \/ \E r \in Reps, step \in FactorySteps : GetLutThrows(r, step)
    \/ \E r \in Reps : Remove(r)
    \/ \E s \in Scopes : UnmountHooks(s)
    \/ \E s \in Scopes : ChildrenDone(s)
    \/ \E s \in Scopes : OwnTeardown(s)
    \/ Flush
    \/ \E s \in Scopes : Remount(s)

CacheSpec == Init /\ [][CacheNext]_vars

\* ------------------------------------------------------------------ registry clients

\* Any hook of the library may be the registry's client: the registry under
\* every sequence of its operations.

\* A factory creates a handle and registers it.
ClientRegister ==
    /\ Len(created) < MaxHandles
    /\ created' = Append(created, [kind |-> "client", owner |-> "none"])
    /\ SetRegistry(AfterCall(Registry, Call("register", Len(created) + 1)))
    /\ UNCHANGED <<lutRef, actorRef, rgbFunction, lastFlush, scopeVars, schedVars,
                   auditVars>>
    /\ UNCHANGED passVars

\* A teardown asks for the deletion of a handle, queued or deleted already
\* or not.
ClientMark(h) ==
    /\ h <= Len(created)
    /\ Len(markCalls) < MaxCalls
    /\ SetRegistry(AfterCall(Registry, Call("markForDeletion", h)))
    /\ lastMark' =
           [h |-> h,
            wasQueued |-> h \in Range(pendingDeletion),
            wasDeleted |-> DeleteCount(h) > 0,
            before |-> pendingDeletion,
            after |-> AfterCall(Registry, Call("markForDeletion", h)).queue,
            logBefore |-> deleteLog,
            logAfter |-> AfterCall(Registry, Call("markForDeletion", h)).log]
    /\ UNCHANGED <<cacheVars, lastFlush, scopeVars, schedVars>>
    /\ UNCHANGED <<scopeInstance, teardownRuns, lifetime, reacquired>>
    /\ UNCHANGED passVars

\* A handle is acquired again before the flush.
ClientCancel(h) ==
    /\ h <= Len(created)
    /\ SetRegistry(AfterCall(Registry, Call("cancel", h)))
    /\ UNCHANGED <<cacheVars, lastFlush, scopeVars, schedVars, auditVars>>
    /\ UNCHANGED passVars

ClientFlush ==
    /\ SetRegistry(AfterFlush(Registry))
    /\ lastFlush' = [calls |-> markCalls,
                     deleted |-> FlushOrder(pendingDeletion),
                     left |-> AfterFlush(Registry).queue]
    /\ UNCHANGED <<cacheVars, scopeVars, schedVars, auditVars>>
    /\ UNCHANGED passVars

RegistryNext ==
    \/ ClientRegister
    \/ \E h \in Handles : ClientMark(h)
    \/ \E h \in Handles : ClientCancel(h)
    \/ ClientFlush

RegistrySpec == Init /\ [][RegistryNext]_vars

\* ------------------------------------------------------------------ representation pass

\* getActor(): the cached actor, or the one useProp's factory makes now.
GetActor(r) ==
    LET a == CacheGet(actorRef[r], Len(created) + 1) IN
        /\ actorRef[r] /= 0 \/ Len(created) < MaxHandles
        /\ actorRef' = [actorRef EXCEPT ![r] = a]
        /\ created' = IF actorRef[r] = 0
                      THEN Append(created, [kind |-> "actor", owner |-> r])
                      ELSE created
        /\ SetRegistry(AfterCalls(Registry,
               IF actorRef[r] = 0 THEN ActorFactoryCalls(a) ELSE <<>>))
        /\ UNCHANGED <<lutRef, rgbFunction, lastFlush>>

\* trackModified(b) called by an effect after it changed the native object.
Track(r, b) ==
    /\ modifiedRef' = [modifiedRef EXCEPT ![r] = trackModified(@, b)]
    /\ marks' = [marks EXCEPT ![r] = Append(@, b)]
    /\ unrendered' = [unrendered EXCEPT ![viewOf(r)] = @ \/ b]

\* The effect of the pass that is next in the component's order.
EffectIs(r, name) ==
    /\ repPhase[r] = "effects"
    /\ latchPc[r] <= Len(EffectOrder)
    /\ EffectOrder[latchPc[r]] = name

\* One React commit in which the representations in S render again with the
\* props decl and prop: the queued setDataAvailable calls are applied too.
LatchCommit(newAuto, S, decl, prop) ==
    /\ Commit(newAuto, S)
    /\ \A r \in Reps :
           ReduceUpdates(dataAvailable[r], availUpdates[r]) /= dataAvailable[r]
               => r \in S
    /\ dataAvailable' =
           [r \in Reps |-> ReduceUpdates(dataAvailable[r], availUpdates[r])]
    /\ availUpdates' = [r \in Reps |-> <<>>]
    /\ declaredVisibility' =
           [r \in Reps |-> IF r \in S THEN decl ELSE declaredVisibility[r]]
    /\ propInput' = [r \in Reps |-> IF r \in S THEN prop ELSE propInput[r]]
    /\ latchPc' = [r \in Reps |-> IF r \in S THEN 1 ELSE latchPc[r]]
    /\ eventDue' =
           [r \in Reps |->
               eventDue[r]
               \/ ReduceUpdates(dataAvailable[r], availUpdates[r]) /= dataAvailable[r]]
    /\ UNCHANGED <<actorVisibility, propPrev, propertyValue, hasInputData,
                   everAvailable, lastReport, lastDispatch, runnerVars,
                   eventVars>>

\* useProp's effect: the actor takes actorProps, and the effect reports
\* whether that changed it.
ActorPropsEffect(r) ==
    /\ EffectIs(r, "actor")
    /\ GetActor(r)
    /\ LET v == Applied(Visibility(dataAvailable[r], declaredVisibility[r])) IN
           /\ actorVisibility' = [actorVisibility EXCEPT ![r] = v]
           /\ Track(r, v /= actorVisibility[r])
    /\ latchPc' = [latchPc EXCEPT ![r] = @ + 1]
    /\ UNCHANGED <<viewVars, repPhase, effectsRun, unserved, reentrant,
                   passMarked, passRequested, scopeVars, auditVars, runnerVars,
                   eventVars, cameraVars>>
    /\ UNCHANGED <<dataAvailable, availUpdates, declaredVisibility, propInput,
                   propPrev, propertyValue, hasInputData, eventDue,
                   everAvailable, lastReport, lastDispatch>>

\* The property effect: useComparableEffect(() => { if (!propertyProps)
\* return; trackModified(getActor().getProperty().set(propertyProps)) },
\* [propertyProps], compareShallowObject).
PropertyEffect(r) ==
    /\ EffectIs(r, "property")
    /\ propPrev' = [propPrev EXCEPT ![r] = RunnerStore(@, propInput[r])]
    /\ IF /\ RunnerRuns(propPrev[r],
                         PropertyInputsEqual(propInput[r], propPrev[r].tuple))
          /\ propInput[r].value /= "absent"
       THEN /\ GetActor(r)
            /\ propertyValue' = [propertyValue EXCEPT ![r] = propInput[r].value]
            /\ Track(r, propertyValue[r] /= propInput[r].value)
       ELSE UNCHANGED <<cacheVars, registryVars, propertyValue, modifiedRef,
                        marks, unrendered>>
    /\ latchPc' = [latchPc EXCEPT ![r] = @ + 1]
    /\ UNCHANGED <<viewVars, repPhase, effectsRun, unserved, reentrant,
                   passMarked, passRequested, scopeVars, auditVars, runnerVars,
                   eventVars, cameraVars>>
    /\ UNCHANGED <<dataAvailable, availUpdates, declaredVisibility,
                   actorVisibility, propInput, hasInputData, eventDue,
                   everAvailable, lastReport, lastDispatch>>

\* The data available effect: if (dataAvailable)
\* dataAvailableEvent.current.dispatchEvent(getInputData()), run when
\* dataAvailable changed.
DataAvailableEffect(r) ==
    /\ EffectIs(r, "event")
    /\ lastDispatch' =
           IF eventDue[r] /\ dataAvailable[r]
           THEN [lastDispatch EXCEPT ![r] =
                    [fired |-> TRUE,
                     input |-> hasInputData[r],
                     visibility |-> actorVisibility[r],
                     declared |-> declaredVisibility[r],
                     actor |-> actorRef[r] /= 0,
                     property |-> \/ propInput[r].value = "absent"
                                  \/ propertyValue[r] = propInput[r].value]]
           ELSE lastDispatch
    /\ lastEvent' =
           IF eventDue[r] /\ dataAvailable[r]
           THEN [lastEvent EXCEPT ![r] =
                    AfterDispatch(@, "dataAvailable", listeners[r].dataAvailable)]
           ELSE lastEvent
    /\ eventDue' = [eventDue EXCEPT ![r] = FALSE]
    /\ latchPc' = [latchPc EXCEPT ![r] = @ + 1]
    /\ UNCHANGED <<schedVars, scopeVars, cacheVars, registryVars, auditVars,
                   runnerVars, listeners, cameraVars>>
    /\ UNCHANGED <<dataAvailable, availUpdates, declaredVisibility,
                   actorVisibility, propInput, propPrev, propertyValue,
                   hasInputData, everAvailable, lastReport>>

\* The settle effect, the last effect of the pass.
LatchSettle(r) ==
    /\ latchPc[r] = Len(EffectOrder) + 1
    /\ RepSettle(r)

\* downstream.setInputData(...): the data source hands its data to the mapper.
SetInputData(r) ==
    /\ ~hasInputData[r]
    /\ hasInputData' = [hasInputData EXCEPT ![r] = TRUE]
    /\ UNCHANGED <<schedVars, scopeVars, cacheVars, registryVars, auditVars,
                   runnerVars, eventVars, cameraVars>>
    /\ UNCHANGED <<dataAvailable, availUpdates, declaredVisibility,
                   actorVisibility, propInput, propPrev, propertyValue,
                   latchPc, eventDue, everAvailable, lastReport, lastDispatch>>

\* A data source reports its data available only once the mapper has it.
SourceMayReport(r, available) == available => hasInputData[r]

\* representation.dataAvailable(available): setDataAvailable(available),
\* then dataChanged(): the dataChanged listeners, renderer.requestRender().
DataAvailableCall(r, available) ==
    /\ SourceMayReport(r, available)
    /\ Len(availUpdates[r]) < MaxQueue
    /\ Len(updates[viewOf(r)]) < MaxQueue
    /\ availUpdates' = [availUpdates EXCEPT ![r] = Append(@, available)]
    /\ everAvailable' = [everAvailable EXCEPT ![r] = @ \/ available]
    /\ lastReport' = [lastReport EXCEPT ![r] = available]
    /\ updates' = [updates EXCEPT ![viewOf(r)] = requestRender(@)]
    /\ unserved' = [unserved EXCEPT ![viewOf(r)] = Capped(@ + 1)]
    /\ UNCHANGED <<renderRequested, effectDue, autoResetCamera, lastSettle,
                   repVars, reentrant, unrendered, marks, passMarked,
                   passRequested>>
    /\ lastEvent' = [lastEvent EXCEPT ![r] =
                         AfterDispatch(@, "dataChanged", listeners[r].dataChanged)]
    /\ UNCHANGED <<scopeVars, cacheVars, registryVars, auditVars, runnerVars,
                   listeners, cameraVars>>
    /\ UNCHANGED <<dataAvailable, declaredVisibility, actorVisibility,
                   propInput, propPrev, propertyValue, hasInputData, latchPc,
                   eventDue, lastDispatch>>

\* representation.dataChanged(): the dataChanged listeners are called with
\* the input data, then renderer.requestRender().
DataChangedCall(r) ==
    /\ Len(updates[viewOf(r)]) < MaxQueue
    /\ lastEvent' = [lastEvent EXCEPT ![r] =
                         AfterDispatch(@, "dataChanged", listeners[r].dataChanged)]
    /\ updates' = [updates EXCEPT ![viewOf(r)] = requestRender(@)]
    /\ unserved' = [unserved EXCEPT ![viewOf(r)] = Capped(@ + 1)]
    /\ UNCHANGED <<renderRequested, effectDue, autoResetCamera, lastSettle,
                   repVars, reentrant, unrendered, marks, passMarked,
                   passRequested>>
    /\ UNCHANGED <<scopeVars, cacheVars, registryVars, auditVars, latchVars,
                   runnerVars, listeners, cameraVars>>

\* representation.onDataAvailable(cb) / onDataChanged(cb): one more listener
\* of the event.
AddListener(r, event) ==
    /\ Len(listeners[r][event]) < MaxListeners
    /\ listeners' = [listeners EXCEPT ![r][event] = AddEventListener(@)]
    /\ UNCHANGED <<schedVars, scopeVars, cacheVars, registryVars, auditVars,
                   latchVars, runnerVars, lastEvent, cameraVars>>

\* The property objects the renders of a run pass.
PassProperties ==
    {AbsentProperty, [ref |-> 1, value |-> "p1"], [ref |-> 2, value |-> "p2"]}

LatchNext ==
    \/ \E S \in SUBSET Reps, decl \in {"absent", "visible", "hidden"},
          prop \in PassProperties :
           LatchCommit(autoResetCamera, S, decl, prop)
    \/ \E r \in Reps : ActorPropsEffect(r)
    \/ \E r \in Reps : PropertyEffect(r)
    \/ \E r \in Reps : DataAvailableEffect(r)
    \/ \E r \in Reps : LatchSettle(r)
    \/ \E v \in Views : ViewEffect(v, 0)
    \/ \E r \in Reps : SetInputData(r)
    \/ \E r \in Reps, available \in BOOLEAN : DataAvailableCall(r, available)

LatchSpec == Init /\ [][LatchNext]_vars

\* The representation with listeners: its props stay as they are.
EventNext ==
    \/ \E r \in Reps, event \in {"dataAvailable", "dataChanged"} :
           AddListener(r, event)
    \/ \E S \in SUBSET Reps :
           LatchCommit(autoResetCamera, S, "absent", AbsentProperty)
    \/ \E r \in Reps : ActorPropsEffect(r)
    \/ \E r \in Reps : PropertyEffect(r)
    \/ \E r \in Reps : DataAvailableEffect(r)
    \/ \E r \in Reps : LatchSettle(r)
    \/ \E v \in Views : ViewEffect(v, 0)
    \/ \E r \in Reps : SetInputData(r)
    \/ \E r \in Reps, available \in BOOLEAN : DataAvailableCall(r, available)
    \/ \E r \in Reps : DataChangedCall(r)

EventSpec == Init /\ [][EventNext]_vars

\* ------------------------------------------------------------------ lookup table effect

\* The comparable effect of useColorTransferFunction in one pass, with the
\* tuple [presetName, range] of this render: when the runner lets it run,
\* getLUT(), applyColorMap, setMappingRange, updateRange, trackModified(true).
ColorEffect(r, in) ==
    /\ repPhase[r] = "effects"
    /\ effectsRun[r] = 0
    /\ lutRef[r] /= 0 \/ Len(created) < MaxHandles
    /\ effectsRun' = [effectsRun EXCEPT ![r] = 1]
    /\ lutPrev' = [lutPrev EXCEPT ![r] = RunnerStore(@, in)]
    /\ LET run == RunnerRuns(lutPrev[r], LutInputsEqual(in, lutPrev[r].tuple))
           h == CacheGet(lutRef[r], Len(created) + 1)
       IN
           /\ lutRun' = [lutRun EXCEPT ![r] =
                  [n |-> Capped(@.n + 1),
                   ran |-> run,
                   count |-> Capped(@.count + (IF run THEN 1 ELSE 0)),
                   input |-> in,
                   before |-> lutPrev[r]]]
           /\ IF run
              THEN /\ lutRef' = [lutRef EXCEPT ![r] = h]
                   /\ created' = IF lutRef[r] = 0
                                 THEN Append(created, [kind |-> "lut", owner |-> r])
                                 ELSE created
                   /\ SetRegistry(AfterCalls(Registry,
                          IF lutRef[r] = 0 THEN LutFactoryCalls(h) ELSE <<>>))
                   /\ lifetime' = [lifetime EXCEPT ![r] = AfterGet(@, lutRef[r], h)]
                   /\ Track(r, TRUE)
              ELSE UNCHANGED <<lutRef, created, deletionMap, pendingDeletion,
                               deleteLog, markCalls, lifetime, modifiedRef,
                               marks, unrendered>>
    /\ UNCHANGED <<viewVars, repPhase, unserved, reentrant, passMarked,
                   passRequested, scopeVars, latchVars, eventVars, cameraVars>>
    /\ UNCHANGED <<actorRef, rgbFunction, lastFlush, scopeInstance,
                   teardownRuns, reacquired, lastMark>>

RunnerNext ==
    \/ \E S \in SUBSET Reps : ViewCommit(autoResetCamera, S)
    \/ \E r \in Reps, in \in LutInputs : ColorEffect(r, in)
    \/ \E r \in Reps : RepSettle(r)
    \/ \E v \in Views : ViewEffect(v, 0)

RunnerSpec == Init /\ [][RunnerNext]_vars

\* ------------------------------------------------------------------ view mount

\* view.resetCamera(boundsToUse) called by a client of the view:
\* resetCamera(boundsToUse), then requestRender().
ResetCameraCall(v, bounds) ==
    /\ viewState[v] /= "absent"
    /\ Len(updates[v]) < MaxQueue
    /\ camera' = [camera EXCEPT ![v] = ResetCamera(bounds)]
    /\ explicit' = [explicit EXCEPT ![v] = bounds]
    /\ updates' = [updates EXCEPT ![v] = requestRender(@)]
    /\ unserved' = [unserved EXCEPT ![v] = Capped(@ + 1)]
    /\ unrendered' = [unrendered EXCEPT ![v] = TRUE]
    /\ UNCHANGED <<renderRequested, effectDue, autoResetCamera, lastSettle,
                   repVars, reentrant, marks, passMarked, passRequested>>
    /\ UNCHANGED <<scopeVars, cacheVars, registryVars, auditVars, latchVars,
                   runnerVars, eventVars>>
    /\ UNCHANGED <<viewState, container, attached, composition, everAuto,
                   mountResets, laterResets, early, lastRender>>

\* An actor put into the renderer whether the renderer is attached or not.
ComposeReadyAlways(v) == TRUE

\* The dependency of a representation's attachment step: the renderer of
\* its view is attached to the render window.
ComposeReady(v) == "addRenderer" \in Range(composition[v])

\* The attachment step of useProp: the actor of the representation is
\* composed into the renderer once the dependency is available.
ComposeActor(r) ==
    /\ ComposeReady(viewOf(r))
    /\ "addActor" \notin Range(composition[viewOf(r)])
    /\ composition' = [composition EXCEPT ![viewOf(r)] = Append(@, "addActor")]
    /\ UNCHANGED <<schedVars, scopeVars, cacheVars, registryVars, auditVars,
                   latchVars, runnerVars, eventVars>>
    /\ UNCHANGED <<viewState, container, attached, camera, explicit, everAuto,
                   mountResets, laterResets, early, lastRender>>

MountNext ==
    \/ \E v \in Views : ExternalRequest(v)
    \/ \E v \in Views, bounds \in BOOLEAN : ResetCameraCall(v, bounds)
    \/ \E a \in [Views -> BOOLEAN], S \in SUBSET Reps : ViewCommit(a, S)
    \/ \E r \in Reps, b \in BOOLEAN : RepEffect(r, b)
    \/ \E r \in Reps : RepSettle(r)
    \/ \E v \in Views, k \in 0..MaxReentrant : ViewEffect(v, k)
    \/ \E r \in Reps : ComposeActor(r)

MountSpec == Init /\ [][MountNext]_vars

\* ------------------------------------------------------------------ two views

\* An application that renders two View elements; the representation is a
\* child of the first.
IsolationInit ==
    /\ SchedInitOf(Views)
    /\ TeardownInit /\ AuditInit /\ PassInit /\ EventInit
    /\ CameraInitOf(Views)

IsolationNext ==
    \/ \E v \in Views : ExternalRequest(v)
    \/ \E v \in Views : ResetCameraCall(v, FALSE)
    \/ ViewCommit(autoResetCamera, {})
    \/ \E r \in Reps : RepSettle(r)
    \/ \E v \in Views : ViewEffect(v, 0)

IsolationSpec == IsolationInit /\ [][IsolationNext]_vars

\* ------------------------------------------------------------------ render scheduling claims

\* A view with nothing left to do: no queued update, no effect to run.
Quiescent(v) ==
    /\ updates[v] = <<>>
    /\ ~effectDue[v]
    /\ \A r \in Reps : viewOf(r) = v => repPhase[r] = "idle"

\* C1: however many requestRender() calls a commit has coalesced (n >= 1 of
\* them not yet followed by a native render), the settle step after that
\* commit is due with the pending flag set, and a settle step invokes the
\* native render at most once: exactly one render follows, never n, never none.
C1_RenderCoalescing ==
    \A v \in Views :
        /\ Count(lastSettle[v], "render") <= 1
        /\ (updates[v] = <<>> /\ unserved[v] >= 1) =>
               (renderRequested[v] /\ effectDue[v])

\* C2: a requestRender() raised while the native render executes is deferred:
\* once the updates of that settle step are applied the pending flag is set
\* and a further settle step is due.
C2_ReentrantDeferred ==
    \A v \in Views :
        (reentrant[v] /\ updates[v] = <<>>) =>
            (renderRequested[v] /\ effectDue[v])

\* C3: the accumulator reads true iff trackModified(true) was called since
\* the last settle effect, whatever trackModified(false) calls followed, and
\* it reads false once the settle effect has run.
C3_DirtyAggregation ==
    \A r \in Reps :
        /\ modifiedRef[r] = AnyTrue(marks[r])
        /\ repPhase[r] = "idle" => ~modifiedRef[r]

\* C3 witness: trackModified(true) then trackModified(false) in one pass, the
\* flag still reads true.
C3_Witness ==
    \E r \in Reps : marks[r] = <<TRUE, FALSE>> /\ modifiedRef[r]

\* C4: a pass that called trackModified(true) ends with a requestRender(),
\* and no native mutation is left without a later native render once the view
\* has nothing left to do.
C4_NoMissedRender ==
    /\ \A r \in Reps :
           (repPhase[r] = "idle" /\ passMarked[r]) => passRequested[r] >= 1
    /\ \A v \in Views : Quiescent(v) => ~unrendered[v]

\* ------------------------------------------------------------------ teardown claims

Cached(h) == \E r \in Reps : lutRef[r] = h \/ actorRef[r] = h

RECURSIVE FirstOccurrences(_)
FirstOccurrences(q) ==
    IF q = <<>> THEN <<>>
    ELSE <<Head(q)>> \o FirstOccurrences(SelectSeq(Tail(q), LAMBDA x : x /= Head(q)))

\* C5: a scope's own teardown never starts before every child scope of the
\* component tree is Destroyed, and the teardown completions of a batch are
\* in reverse topological order: no scope completes after one of its
\* ancestors.
C5_UnmountOrdering ==
    /\ \A s \in Scopes :
           scopeState[s] \in {"TearingDownSelf", "Destroyed"} =>
               \A c \in ComponentChildren(s) : scopeState[c] = "Destroyed"
    /\ \A i, j \in 1..Len(destroyedOrder) :
           (i < j) => destroyedOrder[j] \notin Subtree(destroyedOrder[i])

\* C5 witness: the whole tree torn down, the innermost scope first.
C5_Witness ==
    /\ Len(destroyedOrder) = Cardinality(Scopes)
    /\ destroyedOrder[1] = "m1"

\* C6: no handle's delete callback runs twice, and once a batch is flushed
\* every handle a component created has been deleted exactly once unless a
\* mounted component still caches it.
C6_ReleaseExactlyOnce ==
    /\ \A h \in 1..Len(created) : DeleteCount(h) <= 1
    /\ (removing = {}) =>
           \A h \in 1..Len(created) :
               DeleteCount(h) = (IF Cached(h) THEN 0 ELSE 1)

\* C6 witness: the representation was mounted twice, and both lookup tables
\* have been deleted once.
C6_Witness ==
    /\ removing = {}
    /\ \E g, h \in 1..Len(created) :
           /\ g /= h
           /\ created[g].kind = "lut" /\ created[h].kind = "lut"
           /\ DeleteCount(g) = 1 /\ DeleteCount(h) = 1

\* C7: the queue holds each distinct requested handle once, in the order of
\* the first request; a flush deletes them in that order, each once, and
\* leaves the queue empty.
C7_DeletionFifoDedup ==
    /\ pendingDeletion = FirstOccurrences(markCalls)
    /\ lastFlush.deleted = FirstOccurrences(lastFlush.calls)
    /\ lastFlush.left = <<>>
    /\ \A h \in 1..Len(created) : DeleteCount(h) <= 1

\* C7 witness: H1, H2, H1 requested, then the flush deleted H1 then H2.
C7_Witness ==
    /\ lastFlush.calls = <<1, 2, 1>>
    /\ lastFlush.deleted = <<1, 2>>
    /\ pendingDeletion = <<>>

\* C8: a handle appears at most once in the pending-deletion queue.
C8_QueueUnique ==
    \A i, j \in 1..Len(pendingDeletion) :
        pendingDeletion[i] = pendingDeletion[j] => i = j

\* C8 witness: a handle requested twice and another one, two queue entries.
C8_Witness ==
    /\ Len(markCalls) = 3
    /\ Len(pendingDeletion) = 2

\* C9: whenever the registry deletes a lookup table, every actor whose
\* property holds that table has been deleted before it.
C9_ReferrersFirst ==
    \A j \in 1..Len(deleteLog) :
        \A a \in 1..Len(created) :
            (created[a].kind = "actor" /\ rgbFunction[a] = deleteLog[j].h) =>
                \E i \in 1..(j - 1) : deleteLog[i].h = a

\* C10: every delete callback the registry runs finds the scope of the
\* component that holds the handle Destroyed.
C10_NoDeleteUnderLiveScope ==
    \A i \in 1..Len(deleteLog) : deleteLog[i].ownerState = "Destroyed"

\* C11: a lookup table queued for deletion and re-acquired before its scope
\* is Destroyed and before the flush is the table the getter returns, it is
\* no longer in the deletion queue and its delete callback has not run.
C11_Resurrection ==
    \A r \in Reps :
        reacquired[r].queued /= 0 =>
            /\ reacquired[r].got = reacquired[r].queued
            /\ reacquired[r].queued \notin Range(pendingDeletion)
            /\ DeleteCount(reacquired[r].queued) = 0

\* C12: a deletion request for a handle that is queued already, or that an
\* earlier flush has deleted, leaves the queue and the deletions as they
\* were, and no delete callback ever runs twice.
C12_DoubleDeletionNoOp ==
    /\ (lastMark.h /= 0 /\ (lastMark.wasQueued \/ lastMark.wasDeleted)) =>
           /\ lastMark.after = lastMark.before
           /\ lastMark.logAfter = lastMark.logBefore
    /\ \A h \in 1..Len(created) : DeleteCount(h) <= 1

\* C12 witness: the deletion of a handle was requested after a flush had
\* deleted it, and a later flush has run.
C12_Witness ==
    /\ lastMark.h /= 0
    /\ lastMark.wasDeleted
    /\ Len(lastMark.logBefore) < Len(deleteLog)

\* The representation has nothing left to do: no queued setDataAvailable
\* call, every effect of its last pass has run.
Settled(r) == availUpdates[r] = <<>> /\ repPhase[r] = "idle"

DeclaredSetting(r) ==
    IF declaredVisibility[r] = "hidden" THEN "hidden" ELSE "visible"

\* C13: as long as dataAvailable(true) has not been called on a
\* representation, the visibility applied to its actor is never true,
\* whatever the declared visibility.
C13_LatchBeforeData ==
    \A r \in Reps : ~everAvailable[r] => actorVisibility[r] /= "visible"

\* C13 witness: the actor is declared visible, no data has been reported,
\* and the visibility applied to the actor is false.
C13_Witness ==
    \E r \in Reps :
        /\ ~everAvailable[r]
        /\ declaredVisibility[r] = "visible"
        /\ actorVisibility[r] = "hidden"

\* C14 as claimed: once dataAvailable(true) has been called, the visibility
\* applied to the actor of a settled representation equals the declared
\* setting, whatever calls followed.
C14_LatchAfterData ==
    \A r \in Reps :
        (everAvailable[r] /\ Settled(r)) => actorVisibility[r] = DeclaredSetting(r)

\* C14 amended: the visibility applied to the actor of a settled
\* representation equals the declared setting when the last dataAvailable
\* call reported true, and is false when it reported false.
C14_LatchFollowsLastReport ==
    \A r \in Reps :
        (everAvailable[r] /\ Settled(r)) =>
            actorVisibility[r] =
                (IF lastReport[r] THEN DeclaredSetting(r) ELSE "hidden")

\* C14 witness: data was reported available, then not available; the actor
\* declared visible is hidden again.
C14_Witness ==
    \E r \in Reps :
        /\ everAvailable[r] /\ Settled(r) /\ ~lastReport[r]
        /\ declaredVisibility[r] = "visible"
        /\ actorVisibility[r] = "hidden"
        /\ lastDispatch[r].fired

SameContents(a, b) == a.preset = b.preset /\ a.range.value = b.range.value

\* C15: when the tuple of a pass holds the same values as the tuple of the
\* pass before, the action does not run in that pass, even if the range is
\* a new array; of the first two passes only the first runs the action.
C15_EffectIdempotence ==
    \A r \in Reps :
        (lutRun[r].n >= 2 /\ SameContents(lutRun[r].input, lutRun[r].before.tuple)) =>
            /\ ~lutRun[r].ran
            /\ lutRun[r].n = 2 => lutRun[r].count = 1

\* C15 witness: the second pass got a new array with the same bounds, and
\* the action has run once.
C15_Witness ==
    \E r \in Reps :
        /\ lutRun[r].n = 2
        /\ SameContents(lutRun[r].input, lutRun[r].before.tuple)
        /\ lutRun[r].input.range.ref /= lutRun[r].before.tuple.range.ref
        /\ lutRun[r].count = 1

\* C16: the action runs in the first pass, and in a later pass exactly when
\* the tuple differs from the stored previous tuple; after every pass the
\* stored previous tuple is the tuple of that pass.
C16_TriggerRule ==
    \A r \in Reps :
        lutRun[r].n >= 1 =>
            /\ lutRun[r].ran <=>
                   \/ lutRun[r].n = 1
                   \/ ~SameContents(lutRun[r].input, lutRun[r].before.tuple)
            /\ lutRun[r].before.has <=> lutRun[r].n > 1
            /\ lutPrev[r] = [has |-> TRUE, tuple |-> lutRun[r].input]

\* C16 witness: a later pass whose range bounds changed ran the action, a
\* pass before it with the same values did not.
C16_Witness ==
    \E r \in Reps :
        /\ lutRun[r].n >= 3
        /\ lutRun[r].ran
        /\ lutRun[r].count = 2
        /\ lutRun[r].input.range.value /= lutRun[r].before.tuple.range.value

\* C17: in one mount of a representation, however many times getLUT() is
\* called, the factory has been called once, at the first call, and every
\* call has returned the same handle.
C17_CacheMemoization ==
    \A r \in Reps :
        /\ lifetime[r].gets = 0 => (lifetime[r].made = 0 /\ lifetime[r].got = {})
        /\ lifetime[r].gets >= 1 =>
               (lifetime[r].made = 1 /\ Cardinality(lifetime[r].got) = 1)
        /\ (lifetime[r].gets >= 1 /\ Mounted(r)) => lifetime[r].got = {lutRef[r]}

\* C17 witness: the second mount of the representation called getLUT()
\* several times and its factory ran once.
C17_Witness ==
    \E r \in Reps :
        /\ scopeInstance[r] = 2
        /\ lifetime[r].gets >= 2
        /\ lifetime[r].made = 1

\* An edge of the scope state machine taken by scope s in this step.
ScopeEdge(s) ==
    \/ /\ scopeState[s] = "Active" /\ scopeState'[s] = "TearingDownChildren"
       /\ ComponentChildren(s) /= {}
    \/ /\ scopeState[s] = "Active" /\ scopeState'[s] = "TearingDownSelf"
       /\ ComponentChildren(s) = {}
    \/ /\ scopeState[s] = "TearingDownChildren" /\ scopeState'[s] = "TearingDownSelf"
       /\ \A c \in ComponentChildren(s) : scopeState[c] = "Destroyed"
    \/ /\ scopeState[s] = "TearingDownSelf" /\ scopeState'[s] = "Destroyed"

\* C19: a scope changes state only along Active -> TearingDownChildren ->
\* TearingDownSelf -> Destroyed, or Active -> TearingDownSelf when it has no
\* children; it enters TearingDownSelf only with every child Destroyed; a
\* Destroyed scope stays Destroyed (a component mounted again has a new
\* scope); its own teardown callback has run once when it is Destroyed and
\* not before.
C19_ScopeStateMachine ==
    [][\A s \in Scopes :
          /\ scopeInstance'[s] = scopeInstance[s] =>
                 (scopeState'[s] = scopeState[s] \/ ScopeEdge(s))
          /\ scopeInstance'[s] /= scopeInstance[s] =>
                 (scopeState[s] = "Destroyed" /\ scopeState'[s] = "Active")
          /\ teardownRuns'[s] = (IF scopeState'[s] = "Destroyed" THEN 1 ELSE 0)]_vars

\* C19 witness: every scope of the tree is Destroyed, the representation's
\* for the second time, each after one run of its teardown callback.
C19_Witness ==
    /\ \A s \in Scopes : scopeState[s] = "Destroyed" /\ teardownRuns[s] = 1
    /\ scopeInstance["r1"] = 2

\* C18: after a getLUT() whose factory threw the slot holds no handle, the
\* failed call returned none, the next getLUT() calls the factory again
\* (one factory call per failure, and one more for the handle returned), and
\* a cached handle is always a registered lookup table.
C18_ConstructionFailure ==
    \A r \in Reps :
        /\ lifetime[r].lastThrew => lutRef[r] = 0
        /\ lifetime[r].made =
               lifetime[r].threw + (IF lifetime[r].got = {} THEN 0 ELSE 1)
        /\ Cardinality(lifetime[r].got) <= 1
        /\ lutRef[r] /= 0 =>
               (lutRef[r] \in lifetime[r].got /\ lutRef[r] \in deletionMap)

\* C18 witness: the factory threw after building a table, and the next
\* getLUT() built and cached another one.
C18_Witness ==
    \E r \in Reps :
        /\ lifetime[r].threw >= 1
        /\ lutRef[r] /= 0
        /\ \E h \in 1..Len(created) : h < lutRef[r] /\ h \notin lifetime[r].got

\* C10 witness: a lookup table and the actor holding it have been deleted.
C10_Witness ==
    \E i, j \in 1..Len(deleteLog) :
        /\ created[deleteLog[i].h].kind = "lut"
        /\ created[deleteLog[j].h].kind = "actor"
        /\ rgbFunction[deleteLog[j].h] = deleteLog[i].h

\* ------------------------------------------------------------------ camera claims

\* The step is a run of the render effect of view v that renders.
RenderingSettle(v) == effectDue[v] /\ ~effectDue'[v] /\ renderRequested[v]

\* C21: a settle step that performs a native render calls resetCamera()
\* before render() when autoResetCamera is enabled and not at all when it is
\* disabled; the flag is still set while render() executes, and the clearing
\* update is queued after the render call and whatever was raised inside it.
C21_AutoResetInSettle ==
    [][\A v \in Views :
          RenderingSettle(v) =>
              /\ lastSettle'[v] =
                     (IF autoResetCamera[v]
                      THEN <<"resetCamera", "render">>
                      ELSE <<"render">>)
              /\ renderRequested'[v]
              /\ Len(updates'[v]) > Len(updates[v])
              /\ Last(updates'[v]) = FALSE
              /\ \A i \in (Len(updates[v]) + 1)..(Len(updates'[v]) - 1) :
                     updates'[v][i] = TRUE]_vars

\* C21 witness: a settle step of a view with autoResetCamera disabled has
\* rendered without a camera reset and queued the clearing of the flag
\* behind a request raised inside the render.
C21_Witness ==
    \E v \in Views :
        /\ ~autoResetCamera[v]
        /\ lastSettle[v] = <<"render">>
        /\ ~effectDue[v]
        /\ updates[v] = <<TRUE, FALSE>>

\* C22: a View mounted with autoResetCamera false, and never given true,
\* has called resetCamera() once when its mount effects have run, and no
\* settle step after the mount calls it.
C22_InitialCameraReset ==
    \A v \in Views :
        (viewState[v] = "mounted" /\ ~everAuto[v]) =>
            (mountResets[v] = 1 /\ ~laterResets[v])

\* C23: a requestRender() raised before the render window view has its
\* container only queues a state update: while the container is not
\* attached the view makes no native call, every native render runs with
\* the container attached, and once the view has nothing left to do the
\* early request has been followed by a native render.
C23_DependencyNotReady ==
    \A v \in Views :
        /\ ~attached[v] => (lastSettle[v] = <<>> /\ ~lastRender[v].done)
        /\ lastRender[v].done => lastRender[v].attached
        /\ Quiescent(v) => early[v] /= "raised"
        /\ early[v] = "served" => lastRender[v].done

\* C23 witness: a request raised before the container was attached has
\* been rendered, with the container attached, and the view is at rest.
C23_Witness ==
    \E v \in Views :
        /\ early[v] = "served"
        /\ lastRender[v].attached
        /\ Quiescent(v)

\* Call x was made before call y.
Before(q, x, y) == \E i, j \in 1..Len(q) : i < j /\ q[i] = x /\ q[j] = y

C30_ExplicitBoundsSurvive ==
    \A v \in Views :
        (lastRender[v].done /\ lastRender[v].explicit /\ lastRender[v].auto) =>
            lastRender[v].camera = "bounds"

\* The step raises one request on view v.
RequestOn(v) == updates'[v] = Append(updates[v], TRUE)

\* The step leaves the scheduler and the camera of view w as they were.
Untouched(w) ==
    /\ renderRequested'[w] = renderRequested[w]
    /\ updates'[w] = updates[w]
    /\ effectDue'[w] = effectDue[w]
    /\ lastSettle'[w] = lastSettle[w]
    /\ lastRender'[w] = lastRender[w]
    /\ camera'[w] = camera[w]

\* C26: a requestRender() or resetCamera() on one view leaves the queue, the
\* pending flag, the camera and the renders of every other view as they
\* were, and a view on which no request was ever raised never has its
\* pending flag set and makes no native call, whatever the other views do.
C26_ViewIsolation ==
    /\ [](\A w \in Views :
             (unserved[w] = 0 /\ ~lastRender[w].done) =>
                 (~renderRequested[w] /\ updates[w] = <<>> /\ lastSettle[w] = <<>>))
    /\ [][\A v, w \in Views : (v /= w /\ RequestOn(v)) => Untouched(w)]_vars

\* C26 witness: two mounted views; one has served a request with a native
\* render, the other, never asked, has no pending flag and has not rendered.
C26_Witness ==
    \E v, w \in Views :
        /\ lastRender[v].done /\ unserved[v] = 0
        /\ viewState[w] = "mounted"
        /\ unserved[w] = 0 /\ ~lastRender[w].done /\ ~renderRequested[w]

\* C25: when the settle effect of a pass has run the dirty flag is false,
\* and the pass has called requestRender() once if trackModified(true) was
\* called in that pass and not at all otherwise: a flag set in one pass
\* causes no request in a later one.
C25_DirtyFlagLifecycle ==
    \A r \in Reps :
        repPhase[r] = "idle" =>
            /\ ~modifiedRef[r]
            /\ passRequested[r] = (IF passMarked[r] THEN 1 ELSE 0)

\* C25 witness: the first pass marked the flag and requested one render;
\* the second pass, with nothing to change, has ended with no request.
C25_Witness ==
    \E r \in Reps :
        /\ lutRun[r].n = 2 /\ lutRun[r].count = 1
        /\ repPhase[r] = "idle"
        /\ ~passMarked[r] /\ passRequested[r] = 0
        /\ unserved[viewOf(r)] = 1

\* C27: every dispatch of a data-available or data-changed event calls
\* the listeners registered with that event then, each once, in the order
\* in which they were registered.
C27_ListenerOrder ==
    \A r \in Reps :
        lastEvent[r].event /= "none" =>
            /\ lastEvent[r].called = lastEvent[r].registered
            /\ \A i \in 1..Len(lastEvent[r].called) : lastEvent[r].called[i] = i

\* C27 witness: the data-available event was dispatched to several
\* listeners.
C27_Witness ==
    \E r \in Reps :
        /\ lastEvent[r].event = "dataAvailable"
        /\ Len(lastEvent[r].called) >= 2
        /\ Len(listeners[r].dataChanged) >= 1

\* C28: a scope that has received its removal signal is eventually
\* Destroyed together with every scope below it, and a handle queued for
\* deletion is eventually deleted by a flush: no batch stops with a parent
\* waiting for a child.
C28_TeardownLiveness ==
    /\ \A s \in Scopes :
           (s \in removing) ~>
               (\A d \in Subtree(s) : scopeState[d] = "Destroyed")
    /\ \A h \in Handles :
           (h \in Range(pendingDeletion)) ~>
               (DeleteCount(h) = 1 /\ h \notin Range(pendingDeletion))

\* C28 witness: the whole tree was removed in one batch, every scope is
\* Destroyed and the flush has deleted the queued handles.
C28_Witness ==
    /\ removing = {}
    /\ Len(destroyedOrder) = Cardinality(Scopes)
    /\ \A s \in Scopes : scopeState[s] = "Destroyed"
    /\ Len(lastFlush.deleted) >= 2
    /\ pendingDeletion = <<>>

\* C29: the availability a representation renders with is the last value
\* given to dataAvailable (false before any call) as soon as no call waits
\* for a commit, and the visibility its pass has passed to the actor is
\* that availability AND the declared visibility (true when absent): a
\* dataAvailable(false) after a dataAvailable(true) hides the actor again.
C29_VisibilityFollowsLatest ==
    \A r \in Reps :
        /\ availUpdates[r] = <<>> => dataAvailable[r] = lastReport[r]
        /\ latchPc[r] > 1 =>
               actorVisibility[r] =
                   (IF dataAvailable[r] /\ declaredVisibility[r] /= "hidden"
                    THEN "visible" ELSE "hidden")

\* C29 witness: an actor with no declared visibility was shown after
\* dataAvailable(true) and is hidden again after dataAvailable(false).
C29_Witness ==
    \E r \in Reps :
        /\ lastDispatch[r].fired /\ lastDispatch[r].visibility = "visible"
        /\ ~lastReport[r] /\ availUpdates[r] = <<>>
        /\ declaredVisibility[r] = "absent"
        /\ latchPc[r] > 1
        /\ actorVisibility[r] = "hidden"

\* The step is a run of the render effect of view v.
SettleStep(v) == effectDue[v] /\ ~effectDue'[v]

\* C31: the native render and the camera reset of a view happen only in a
\* settle step that finds the pending flag set and a request raised since
\* the last native render began; a settle step that finds the flag clear
\* makes no native call, and outside the settle steps nothing renders.
C31_NoSpuriousRender ==
    [][\A v \in Views :
          /\ ~SettleStep(v) =>
                 (lastSettle'[v] = lastSettle[v] /\ lastRender'[v] = lastRender[v])
          /\ (SettleStep(v) /\ lastSettle'[v] /= <<>>) =>
                 (renderRequested[v] /\ unserved[v] >= 1)
          /\ (SettleStep(v) /\ ~renderRequested[v]) =>
                 /\ lastSettle'[v] = <<>>
                 /\ lastRender'[v] = lastRender[v]
                 /\ camera'[v] = camera[v]]_vars

\* C31 witness: after a native render the flag was cleared, and the settle
\* step that followed found it clear and made no native call.
C31_Witness ==
    \E v \in Views :
        /\ lastRender[v].done
        /\ lastSettle[v] = <<>>
        /\ ~renderRequested[v] /\ ~effectDue[v]
        /\ unserved[v] = 0

\* C33: once the unmount batch of a component is over (its scope Destroyed,
\* the registry flushed), no lookup table the component's factory created
\* is still registered with the deletion registry: every table was queued
\* for deletion and deleted, also one the getter built after the unmount
\* hook had cleared the cache slot.
C33_NoHandleAfterTeardown ==
    \A h \in 1..Len(created) :
        (/\ created[h].kind = "lut"
         /\ OwnerState(h) = "Destroyed"
         /\ removing = {}) => h \notin deletionMap

\* C32: once the external input has stopped (no further requestRender()
\* from outside, no prop change, no request raised by a listener inside
\* render()), every view comes to rest with nothing left to do and its
\* pending flag false, and stays there.
C32_Quiescence ==
    <>[][InternalStep]_vars =>
        <>[](\A v \in Views :
                 viewState[v] /= "absent" => (Quiescent(v) /\ ~renderRequested[v]))

====
